---- MODULE Spec2Model ----
(***************************************************************************)
(* Model of the traffic shaper controller (shaper/shaping-controller.py)   *)
(* and of the test harness that drives it (test-automation/test_runner.py).*)
(*                                                                         *)
(* State: the policy catalog file, the process-wide current_policy record, *)
(* the kernel's scheduler configuration of each interface, the position of *)
(* every request handler, the position of the harness, and the tc          *)
(* processes that outlived a timed-out shell (orphans).  served counts the  *)
(* requests the server has accepted.                                       *)
(*                                                                         *)
(* A handler waits in run_command while the shell runs its command line:   *)
(* the tc invocations of the line are steps of the shell (RunTc), and the  *)
(* code of the handler from the return of run_command up to its next       *)
(* run_command call (or to its own return) is one step of the handler.     *)
(*                                                                         *)
(* A command line is the sequence of its words.  The kernel configuration  *)
(* of an interface is the sequence of the tc "add" commands in effect.     *)
(*                                                                         *)
(* Spec is the server with two requests in service at once (SpecReaders:   *)
(* its requests that write or read the record), SpecSerial the server with *)
(* one request in service at a time over every catalog (SpecSerialHtb and  *)
(* SpecSerialQdisc: over the catalogs of one family), and SpecSuite the    *)
(* server driven by the test harness.                                      *)
(***************************************************************************)
EXTENDS Integers, Sequences, FiniteSets, Bags, TLC

VARIABLES catalog, current_policy, kernel, req, tester, orphans, served

vars == <<catalog, current_policy, kernel, req, tester, orphans, served>>

(***************************************************************************)
(* Bounds.                                                                 *)
(***************************************************************************)
MaxClasses == 3

\* The longest list of policies handed to run_test_suite.
MaxPolicies == 2

\* The most requests the server is sent in a run.
MaxRequests == 2

Threads == {"t1", "t2"}

Interfaces == {"eth1", "eth2"}

(***************************************************************************)
(* Policy descriptors, as they appear in /app/policies.json.  A descriptor *)
(* is a record; an optional attribute is absent from its domain.           *)
(***************************************************************************)
DNone == [type |-> "none"]

DNoneDoc == [type |-> "none", description |-> "No traffic shaping"]

DUnknown == [type |-> "tbf", rate |-> "1mbit"]

DSlowLink == [type |-> "netem", delay |-> "100ms", loss |-> "1%"]

CakeFull == [type |-> "cake", bandwidth |-> "10mbit", rtt |-> "50ms",
             features |-> <<"nat", "wash">>]

CakeDescriptors ==
    { [k \in ({"type"} \cup S) |-> CakeFull[k]] :
        S \in SUBSET {"bandwidth", "rtt", "features"} }

NetemFull == [type |-> "netem", delay |-> "100ms", jitter |-> "10ms",
              loss |-> "1%", rate |-> "5mbit"]

NetemDescriptors ==
    { [k \in ({"type"} \cup S) |-> NetemFull[k]] :
        S \in SUBSET {"delay", "jitter", "loss", "rate"} }

ClassRates == <<"5mbit", "3mbit", "2mbit", "1mbit", "512kbit">>

\* The k-th class of the modelled descriptors: every second one has no ceil.
ClassCfg(k) ==
    IF k % 2 = 1 THEN [rate |-> ClassRates[k], ceil |-> "10mbit"]
                 ELSE [rate |-> ClassRates[k]]

HtbDescriptor(n) ==
    [type |-> "htb", total_bandwidth |-> "10mbit",
     classes |-> [k \in 1..n |-> ClassCfg(k)]]

HtbDescriptors == { HtbDescriptor(n) : n \in 0..MaxClasses }

\* An htb descriptor whose second class lacks the required rate.
DHtbNoRate ==
    [type |-> "htb", total_bandwidth |-> "10mbit",
     classes |-> <<[rate |-> "5mbit"], [ceil |-> "10mbit"]>>]

Descriptors ==
    {DNone, DNoneDoc, DUnknown, DHtbNoRate} \cup CakeDescriptors
        \cup NetemDescriptors \cup HtbDescriptors

(***************************************************************************)
(* Commands.                                                               *)
(***************************************************************************)
ClearCommand(interface) ==
    <<"tc", "qdisc", "del", "dev", interface, "root", "2>/dev/null", "||", "true">>

\* Mutation: the features are appended before rtt.
CakeCommand_FeaturesBeforeRtt(policy, interface) ==
    <<"tc", "qdisc", "add", "dev", interface, "root", "cake",
      "bandwidth", policy.bandwidth>>
      \o (IF "features" \in DOMAIN policy THEN policy.features ELSE <<>>)
      \o (IF "rtt" \in DOMAIN policy THEN <<"rtt", policy.rtt>> ELSE <<>>)

CakeCommand(policy, interface) ==
    <<"tc", "qdisc", "add", "dev", interface, "root", "cake",
      "bandwidth", policy.bandwidth>>
      \o (IF "rtt" \in DOMAIN policy THEN <<"rtt", policy.rtt>> ELSE <<>>)
      \o (IF "features" \in DOMAIN policy THEN policy.features ELSE <<>>)

\* Mutation: rate is appended before loss.
NetemCommand_RateBeforeLoss(policy, interface) ==
    <<"tc", "qdisc", "add", "dev", interface, "root", "netem">>
      \o (IF "delay" \in DOMAIN policy THEN <<"delay", policy.delay>> ELSE <<>>)
      \o (IF "jitter" \in DOMAIN policy THEN <<policy.jitter>> ELSE <<>>)
      \o (IF "rate" \in DOMAIN policy THEN <<"rate", policy.rate>> ELSE <<>>)
      \o (IF "loss" \in DOMAIN policy THEN <<"loss", policy.loss>> ELSE <<>>)

NetemCommand(policy, interface) ==
    <<"tc", "qdisc", "add", "dev", interface, "root", "netem">>
      \o (IF "delay" \in DOMAIN policy THEN <<"delay", policy.delay>> ELSE <<>>)
      \o (IF "jitter" \in DOMAIN policy THEN <<policy.jitter>> ELSE <<>>)
      \o (IF "loss" \in DOMAIN policy THEN <<"loss", policy.loss>> ELSE <<>>)
      \o (IF "rate" \in DOMAIN policy THEN <<"rate", policy.rate>> ELSE <<>>)

HtbRootCommand(interface) ==
    <<"tc", "qdisc", "add", "dev", interface, "root", "handle", "1:",
      "htb", "default", "30">>

HtbAggregateCommand(policy, interface) ==
    <<"tc", "class", "add", "dev", interface, "parent", "1:",
      "classid", "1:1", "htb", "rate", policy.total_bandwidth>>

\* classid = f"1:{i}"
ClassId(i) == "1:" \o ToString(i)

HtbClassCommand(class_cfg, i, interface) ==
    <<"tc", "class", "add", "dev", interface, "parent", "1:1",
      "classid", ClassId(i), "htb", "rate", class_cfg.rate, "ceil",
      (IF "ceil" \in DOMAIN class_cfg THEN class_cfg.ceil ELSE class_cfg.rate)>>

HtbLeafCommand(i, interface) ==
    <<"tc", "qdisc", "add", "dev", interface, "parent", ClassId(i),
      "handle", ToString(i) \o ":", "fq_codel">>

\* Mutation: the class number does not advance.
RECURSIVE HtbClassCommands_SameId(_, _, _)
HtbClassCommands_SameId(classes, i, interface) ==
    IF classes = <<>> THEN <<>>
    ELSE <<HtbClassCommand(Head(classes), i, interface),
           HtbLeafCommand(i, interface)>>
           \o HtbClassCommands_SameId(Tail(classes), i, interface)

\* for i, class_cfg in enumerate(policy['classes'], start=10)
RECURSIVE HtbClassCommands(_, _, _)
HtbClassCommands(classes, i, interface) ==
    IF classes = <<>> THEN <<>>
    ELSE <<HtbClassCommand(Head(classes), i, interface),
           HtbLeafCommand(i, interface)>>
           \o HtbClassCommands(Tail(classes), i + 1, interface)

\* Mutation: the aggregate class is appended before the root discipline.
HtbCommands_AggregateFirst(policy, interface) ==
    <<HtbAggregateCommand(policy, interface), HtbRootCommand(interface)>>
        \o HtbClassCommands(policy.classes, 10, interface)

HtbCommands(policy, interface) ==
    <<HtbRootCommand(interface), HtbAggregateCommand(policy, interface)>>
        \o HtbClassCommands(policy.classes, 10, interface)

\* The subscripts of the translation that raise KeyError.
RaisesKeyError(policy) ==
    \/ "type" \notin DOMAIN policy
    \/ policy.type = "cake" /\ "bandwidth" \notin DOMAIN policy
    \/ /\ policy.type = "htb"
       /\ \/ "total_bandwidth" \notin DOMAIN policy
          \/ "classes" \notin DOMAIN policy
          \/ \E k \in DOMAIN policy.classes : "rate" \notin DOMAIN policy.classes[k]

(***************************************************************************)
(* The shell and the kernel.                                               *)
(*                                                                         *)
(* run_command hands a command line to /bin/sh (shell=True).  The shell    *)
(* runs the tc invocations of the line one after the other (a line the     *)
(* handlers build from an interface name holds one).  The environment      *)
(* decides how an invocation ends: "ok" (tc ran to its end), "fail" (tc    *)
(* was refused: bad parameter, no permission, no such device) or "timeout" *)
(* (subprocess.run raised TimeoutExpired and killed the shell; the tc      *)
(* process is not killed with it and may still do its work later).         *)
(***************************************************************************)
Outcomes == {"ok", "fail", "timeout"}

\* The words the shell makes of the interface string of a request: a name
\* is one word, and a string that holds shell syntax is read as such.
InjectedInterface == "eth1; tc qdisc del dev eth1 root"

ShellWords(interface) ==
    IF interface = InjectedInterface
    THEN <<"eth1", ";", "tc", "qdisc", "del", "dev", "eth1", "root">>
    ELSE <<interface>>

\* The tc invocations of a command line, split at ";".
RECURSIVE Invocations(_)
Invocations(line) ==
    IF \A j \in 1..Len(line) : line[j] # ";" THEN <<line>>
    ELSE LET j == CHOOSE i \in 1..Len(line) :
                      line[i] = ";" /\ \A h \in 1..(i - 1) : line[h] # ";"
         IN  <<SubSeq(line, 1, j - 1)>>
                 \o Invocations(SubSeq(line, j + 1, Len(line)))

\* The interface an invocation names after "dev".
Device(cmd) == IF cmd[4] = "dev" THEN cmd[5] ELSE cmd[6]

IsDelete(cmd) == cmd[2] = "qdisc" /\ cmd[3] = "del"

IsRootAdd(cmd) == cmd[2] = "qdisc" /\ cmd[3] = "add" /\ cmd[6] = "root"

\* "tc qdisc show ..." and "tc -s qdisc show ...": tc prints and changes nothing.
IsShow(cmd) == cmd[3] = "show" \/ cmd[4] = "show"

IsClassAdd(cmd) == cmd[2] = "class" /\ cmd[3] = "add"

IsLeafAdd(cmd) == cmd[2] = "qdisc" /\ cmd[3] = "add" /\ cmd[6] = "parent"

\* The kind of a root discipline: "... root cake ...", "... root handle 1: htb ...".
RootKind(cmd) == IF cmd[7] = "handle" THEN cmd[9] ELSE cmd[7]

\* The configured command c is the root discipline or the class named p.
Provides(c, p) ==
    \/ IsRootAdd(c) /\ c[7] = "handle" /\ c[8] = p
    \/ IsClassAdd(c) /\ c[9] = p

\* The configuration k already has the class, or a discipline under the
\* parent, that cmd asks for.
Occupied(cmd, k) ==
    \E j \in 1..Len(k) :
        \/ IsClassAdd(cmd) /\ IsClassAdd(k[j]) /\ k[j][9] = cmd[9]
        \/ IsLeafAdd(cmd) /\ IsLeafAdd(k[j]) /\ k[j][7] = cmd[7]

\* The command line ends with "|| true": the shell exits with 0 whatever tc did.
Masked(cmd) ==
    Len(cmd) >= 2 /\ cmd[Len(cmd) - 1] = "||" /\ cmd[Len(cmd)] = "true"

\* The root discipline of the configuration k is htb.
HtbRoot(k) == k # <<>> /\ RootKind(k[1]) = "htb"

\* What the kernel accepts.  A root discipline: on an interface that has
\* none; without a handle also over a root of another kind, which it
\* replaces (over one of its own kind, and with a handle over any root, tc
\* is refused).  A class: under an htb root, where the configuration has no
\* class with that identifier yet (htb takes a parent it does not know as
\* the root).  A leaf discipline: under its class, where the class has none
\* yet.
CanSucceed(cmd, k) ==
    \/ IsDelete(cmd)
    \/ IsShow(cmd)
    \/ /\ IsRootAdd(cmd)
       /\ \/ k = <<>>
          \/ k # <<>> /\ cmd[7] # "handle" /\ RootKind(k[1]) # RootKind(cmd)
    \/ /\ IsClassAdd(cmd)
       /\ HtbRoot(k)
       /\ ~Occupied(cmd, k)
    \/ /\ IsLeafAdd(cmd)
       /\ \E j \in 1..Len(k) : Provides(k[j], cmd[7])
       /\ ~Occupied(cmd, k)

PossibleOutcomes(cmd, k) ==
    { o \in Outcomes : o = "ok" => CanSucceed(cmd, k) }

\* What tc reports: "done", "nothing" (a removal that found no root
\* discipline to remove), "error" or "timeout".
TcResult(cmd, outcome, k) ==
    CASE outcome = "timeout" -> "timeout"
      [] outcome = "fail" -> "error"
      [] OTHER -> IF IsDelete(cmd) /\ k = <<>> THEN "nothing" ELSE "done"

\* The configuration of the interface when the invocation has ended (for a
\* timeout: when the shell was killed).  A class whose parent the
\* configuration does not have is attached to the root.
TcEffect(cmd, outcome, k) ==
    IF outcome # "ok" THEN k
    ELSE IF IsDelete(cmd) THEN <<>>
    ELSE IF IsShow(cmd) THEN k
    ELSE IF IsRootAdd(cmd) THEN <<cmd>>
    ELSE IF IsClassAdd(cmd) /\ \A j \in 1..Len(k) : ~Provides(k[j], cmd[7])
    THEN Append(k, [cmd EXCEPT ![7] = k[1][8]])
    ELSE Append(k, cmd)

\* The tc processes that outlive their shell after the invocation, as a
\* bag of their command lines: the timed-out tc process goes on beside
\* those already there (a show has nothing left to change).
Survivors(cmd, outcome, running) ==
    IF outcome = "timeout" /\ ~IsShow(cmd)
    THEN running (+) SetToBag({cmd})
    ELSE running

\* Mutation: the exception handler reports success.
run_command_TimeoutSucceeds(cmd, tc) ==
    IF tc = "timeout"
    THEN [success |-> TRUE, error |-> "timed out"]
    ELSE IF Masked(cmd)
    THEN [success |-> TRUE, output |-> "", error |-> ""]
    ELSE IF tc = "done"
    THEN [success |-> TRUE, output |-> "", error |-> ""]
    ELSE [success |-> FALSE, output |-> "", error |-> "tc: error"]

\* run_command: success is "the shell exited with 0"; an exception
\* (the timeout) is caught and reported as a failure.
run_command(cmd, tc) ==
    IF tc = "timeout"
    THEN [success |-> FALSE, error |-> "timed out"]
    ELSE IF Masked(cmd)
    THEN [success |-> TRUE, output |-> "", error |-> ""]
    ELSE IF tc = "done"
    THEN [success |-> TRUE, output |-> "", error |-> ""]
    ELSE [success |-> FALSE, output |-> "", error |-> "tc: error"]

\* clear_shaping returns the same value whatever run_command returned.
clear_shaping(interface) == [status |-> "cleared", interface |-> interface]

(***************************************************************************)
(* Requests.                                                               *)
(***************************************************************************)
InactiveRecord == [name |-> "none", status |-> "inactive"]

\* Mutation: every policy is recorded with the configuration of no_shaping.
ActiveRecord_NoneConfig(policy_name, config) ==
    [name |-> policy_name, status |-> "active", config |-> [type |-> "none"]]

ActiveRecord(policy_name, config) ==
    [name |-> policy_name, status |-> "active", config |-> config]

NoPolicy == [type |-> "unset"]

NoResponse == [status |-> 0, body |-> [none |-> TRUE]]

\* tc is where the run_command call of the handler stands: "none" (no
\* call), "running", or what tc reported to the call that has returned;
\* at counts the invocations of the line that have ended, output is what
\* they printed.
IdleRequest ==
    [pc |-> "idle", op |-> "none", policy_name |-> "", interface |-> "",
     policy |-> NoPolicy, commands |-> <<>>, log |-> <<>>,
     response |-> NoResponse, pre |-> InactiveRecord,
     tc |-> "none", at |-> 0, output |-> <<>>]

\* The names a client asks for; "" stands for a request without a name.
\* Nothing in the handlers keeps the name "none" of the inactive record apart
\* from the names of policies.
RequestNames ==
    {"", "no_shaping", "slow_link", "custom", "missing_policy", "none"}

NoShapingEntries == {DNone, DNoneDoc, DUnknown}

\* A catalog file one of whose policies is named "none".
NoneNamedCatalog ==
    [n \in {"none", "slow_link", "custom"} |->
        IF n = "none" THEN [type |-> "netem", delay |-> "100ms"]
        ELSE IF n = "slow_link" THEN DSlowLink ELSE DNone]

\* The descriptors of the policy "custom" in the catalogs that have an entry
\* for no_shaping.
CustomBesideNoShaping == {DNone, HtbDescriptor(1)}

Catalogs ==
    { [n \in {"slow_link", "custom"} |->
          IF n = "slow_link" THEN DSlowLink ELSE d] : d \in Descriptors }
    \cup
    { [n \in {"no_shaping", "slow_link", "custom"} |->
          IF n = "no_shaping" THEN e
          ELSE IF n = "slow_link" THEN DSlowLink ELSE d] :
        e \in NoShapingEntries, d \in CustomBesideNoShaping }
    \cup {NoneNamedCatalog}

\* return {"success": False, "error": f"Policy '{policy_name}' not found"}
NotFoundResult(policy_name) ==
    [success |-> FALSE, error |-> "Policy '" \o policy_name \o "' not found"]

\* return {"success": False, "error": f"Unknown policy type: {policy['type']}"}
UnknownTypeResult(policy) ==
    [success |-> FALSE, error |-> "Unknown policy type: " \o policy.type]

\* Mutation: the result of the command is not looked at.
CommandFailed_Never(result) == FALSE

\* Mutation: the test of the result is inverted.
CommandFailed_Inverted(result) == result.success

\* if not result['success']
CommandFailed(result) == ~result.success

\* Mutation: the record is updated field by field and the configuration of
\* the previous record is left in place.
RecordAfterCommand_NameOnly(record, failed, last, policy_name, policy) ==
    IF ~failed /\ last
    THEN [record EXCEPT !.name = policy_name, !.status = "active"]
    ELSE record

\* current_policy after a command of the policy: it is assigned only past
\* the last command, and only when the command did not fail.
RecordAfterCommand(record, failed, last, policy_name, policy) ==
    IF ~failed /\ last THEN ActiveRecord(policy_name, policy) ELSE record

\* One issued command with what tc reported and what run_command returned.
LogEntry(cmd, tc) == [command |-> cmd, tc |-> tc, result |-> run_command(cmd, tc)]

\* jsonify(result), 200 if result.get('success', False) else 400
ApplyResponse(result) ==
    [status |-> IF result.success THEN 200 ELSE 400, body |-> result]

\* The harness: where run_test_suite stands (pc), its policies argument
\* (given is FALSE for policies=None), the loop index, self.results, and
\* the calls it has made so far, in order.  strict tells which Flask the
\* controller it talks to runs on: one whose request.json refuses a POST
\* without a JSON body, or one whose request.json is None for it.
NoSuite ==
    [pc |-> "off", given |-> TRUE, strict |-> FALSE, policies |-> <<>>,
     i |-> 1, results |-> <<>>, events |-> <<>>]

\* POST /policy/apply up to the run_command call of clear_shaping.
ApplyRequest(t, policy_name, interface) ==
    /\ req[t].pc = "idle"
    /\ IF policy_name = ""
       THEN req' = [req EXCEPT ![t] =
                [IdleRequest EXCEPT !.pc = "done", !.op = "apply",
                    !.interface = interface, !.pre = current_policy,
                    !.response = [status |-> 400,
                        body |-> [success |-> FALSE,
                                  error |-> "Policy name required"]]]]
       ELSE req' = [req EXCEPT ![t] =
                [IdleRequest EXCEPT !.pc = "apply_clear", !.op = "apply",
                    !.policy_name = policy_name, !.interface = interface,
                    !.pre = current_policy, !.tc = "running"]]
    /\ UNCHANGED <<catalog, current_policy, kernel, orphans>>

ShowCommand(interface) == <<"tc", "qdisc", "show", "dev", interface>>

\* f"tc -s qdisc show dev {interface}": the string of the request is pasted
\* into the line as it came.
StatsCommand(interface) ==
    <<"tc", "-s", "qdisc", "show", "dev">> \o ShellWords(interface)

\* The configured command c made a queueing discipline (not a class).
IsQdisc(c) == c[2] = "qdisc"

\* What the invocation prints: "tc qdisc show" lists the disciplines of the
\* interface, the root and those under the classes, and no class; a
\* listed discipline stands for its line of the listing.
ShowOutput(cmd, tc, k) ==
    IF IsShow(cmd) /\ tc = "done" THEN SelectSeq(k, IsQdisc) ELSE <<>>

\* The command line of the run_command call the handler is in.
CommandInFlight(r) ==
    CASE r.pc \in {"apply_clear", "clear"} -> ClearCommand(r.interface)
      [] r.pc = "apply_exec" -> r.commands[1]
      [] r.pc = "apply_htb" -> r.commands[Len(r.log)]
      [] r.pc = "current" -> ShowCommand("eth1")
      [] r.pc = "stats" -> StatsCommand(r.interface)

\* run_command has returned to the handler.
CommandReturned(r) == r.tc \notin {"none", "running"}

\* subprocess.run: the shell runs the next tc invocation of the line; after
\* the last one, or at the timeout, run_command returns.
RunTc(t, outcome) ==
    LET r == req[t]
        invocations == Invocations(CommandInFlight(r))
        cmd == invocations[r.at + 1]
        dev == Device(cmd)
        k == kernel[dev]
        tc == TcResult(cmd, outcome, k)
        last == r.at + 1 = Len(invocations) \/ outcome = "timeout"
    IN  /\ r.tc = "running"
        /\ outcome \in PossibleOutcomes(cmd, k)
        /\ kernel' = [kernel EXCEPT ![dev] = TcEffect(cmd, outcome, k)]
        /\ orphans' = Survivors(cmd, outcome, orphans)
        /\ req' = [req EXCEPT ![t] =
              [r EXCEPT !.tc = IF last THEN tc ELSE "running",
                        !.at = IF last THEN 0 ELSE @ + 1,
                        !.output = @ \o ShowOutput(cmd, tc, k)]]
        /\ UNCHANGED <<catalog, current_policy>>

\* A tc process that outlived its shell ends: it does its work where the
\* kernel accepts it, or is refused.
OrphanRuns(cmd, outcome) ==
    LET dev == Device(cmd)
        k == kernel[dev]
    IN  /\ BagIn(cmd, orphans)
        /\ outcome \in PossibleOutcomes(cmd, k) \ {"timeout"}
        /\ kernel' = [kernel EXCEPT ![dev] = TcEffect(cmd, outcome, k)]
        /\ orphans' = orphans (-) SetToBag({cmd})
        /\ UNCHANGED <<catalog, current_policy, req>>

\* apply_policy from the return of clear_shaping to the run_command call of
\* the first command of the policy (or to the return, where no command is
\* reached).
ApplyClear(t) ==
    LET r == req[t]
        interface == r.interface
        policy_name == r.policy_name
        cmd == ClearCommand(interface)
        log == Append(r.log, LogEntry(cmd, r.tc))
        Return(result) ==
            [r EXCEPT !.pc = "done", !.log = log, !.tc = "none",
                      !.response = ApplyResponse(result)]
    IN  /\ r.pc = "apply_clear"
        /\ CommandReturned(r)
        /\ UNCHANGED <<catalog, kernel, orphans>>
        /\ IF policy_name = "no_shaping"
           THEN /\ current_policy' = ActiveRecord(policy_name, [type |-> "none"])
                /\ req' = [req EXCEPT ![t] =
                      Return([success |-> TRUE, policy |-> policy_name,
                              message |-> "No shaping applied"])]
           ELSE IF policy_name \notin DOMAIN catalog
           THEN /\ UNCHANGED current_policy
                /\ req' = [req EXCEPT ![t] =
                      Return(NotFoundResult(policy_name))]
           ELSE LET policy == catalog[policy_name] IN
                /\ UNCHANGED current_policy
                /\ IF RaisesKeyError(policy)
                   THEN req' = [req EXCEPT ![t] =
                          [r EXCEPT !.pc = "done", !.log = log, !.tc = "none",
                              !.policy = policy,
                              !.response = [status |-> 500,
                                            body |-> [exception |-> "KeyError"]]]]
                   ELSE IF policy.type = "cake"
                   THEN req' = [req EXCEPT ![t] =
                          [r EXCEPT !.pc = "apply_exec", !.log = log,
                              !.tc = "running", !.policy = policy,
                              !.commands = <<CakeCommand(policy, interface)>>]]
                   ELSE IF policy.type = "netem"
                   THEN req' = [req EXCEPT ![t] =
                          [r EXCEPT !.pc = "apply_exec", !.log = log,
                              !.tc = "running", !.policy = policy,
                              !.commands = <<NetemCommand(policy, interface)>>]]
                   ELSE IF policy.type = "htb"
                   THEN req' = [req EXCEPT ![t] =
                          [r EXCEPT !.pc = "apply_htb", !.log = log,
                              !.tc = "running", !.policy = policy,
                              !.commands = HtbCommands(policy, interface)]]
                   ELSE req' = [req EXCEPT ![t] =
                          [Return(UnknownTypeResult(policy))
                              EXCEPT !.policy = policy]]

\* One iteration of "for cmd in commands" of the htb branch, from the
\* return of its run_command call; the command of the iteration is the one
\* after those already logged (the log starts with the removal).  The last
\* iteration goes on to the record update and the return.
ApplyHtbCommand(t) ==
    LET r == req[t]
        cmd == r.commands[Len(r.log)]
        result == run_command(cmd, r.tc)
        failed == CommandFailed(result)
        log == Append(r.log, LogEntry(cmd, r.tc))
        last == Len(log) > Len(r.commands)
    IN  /\ r.pc = "apply_htb"
        /\ CommandReturned(r)
        /\ UNCHANGED <<catalog, kernel, orphans>>
        /\ current_policy' =
              RecordAfterCommand(current_policy, failed, last,
                                 r.policy_name, r.policy)
        /\ IF failed
           THEN /\ req' = [req EXCEPT ![t] =
                      [r EXCEPT !.pc = "done", !.log = log, !.tc = "none",
                          !.response = ApplyResponse(
                              [success |-> FALSE, error |-> result.error,
                               command |-> cmd])]]
           ELSE IF ~last
           THEN /\ req' = [req EXCEPT ![t] =
                      [r EXCEPT !.log = log, !.tc = "running"]]
           ELSE /\ req' = [req EXCEPT ![t] =
                      [r EXCEPT !.pc = "done", !.log = log, !.tc = "none",
                          !.response = ApplyResponse(
                              [success |-> TRUE, policy |-> r.policy_name,
                               type |-> "htb"])]]

\* "Execute the command" of the cake and netem branches, from the return of
\* run_command to the return of apply_policy.
ApplyExec(t) ==
    LET r == req[t]
        cmd == r.commands[1]
        result == run_command(cmd, r.tc)
        failed == CommandFailed(result)
        log == Append(r.log, LogEntry(cmd, r.tc))
    IN  /\ r.pc = "apply_exec"
        /\ CommandReturned(r)
        /\ UNCHANGED <<catalog, kernel, orphans>>
        /\ current_policy' =
              RecordAfterCommand(current_policy, failed, TRUE,
                                 r.policy_name, r.policy)
        /\ IF ~failed
           THEN /\ req' = [req EXCEPT ![t] =
                      [r EXCEPT !.pc = "done", !.log = log, !.tc = "none",
                          !.response = ApplyResponse(
                              [success |-> TRUE, policy |-> r.policy_name,
                               command |-> cmd])]]
           ELSE /\ req' = [req EXCEPT ![t] =
                      [r EXCEPT !.pc = "done", !.log = log, !.tc = "none",
                          !.response = ApplyResponse(
                              [success |-> FALSE, error |-> result.error,
                               command |-> cmd])]]

\* The status of the response when request.json refuses a request that
\* has no JSON body: 415, or 400 (Flask 2.1 and 2.2).
RefusedStatuses == {400, 415}

\* POST /policy/clear without a JSON body on a Flask whose request.json
\* refuses it: "data = request.json or {}" raises, no command is run and
\* the record is not written.
ClearRefused(t, status) ==
    /\ req[t].pc = "idle"
    /\ req' = [req EXCEPT ![t] =
            [IdleRequest EXCEPT !.pc = "done", !.op = "clear",
                !.interface = "eth1", !.pre = current_policy,
                !.response = [status |-> status,
                              body |-> [exception |-> "HTTPException"]]]]
    /\ UNCHANGED <<catalog, current_policy, kernel, orphans>>

\* POST /policy/clear up to the run_command call of clear_shaping: the
\* request has a JSON body, or request.json is None without one.
ClearRequest(t, interface) ==
    /\ req[t].pc = "idle"
    /\ req' = [req EXCEPT ![t] =
            [IdleRequest EXCEPT !.pc = "clear", !.op = "clear",
                !.interface = interface, !.pre = current_policy,
                !.tc = "running"]]
    /\ UNCHANGED <<catalog, current_policy, kernel, orphans>>

\* clear_policy_endpoint from the return of clear_shaping: the record reset
\* and the response.
ClearPolicy(t) ==
    LET r == req[t]
        interface == r.interface
        cmd == ClearCommand(interface)
    IN  /\ r.pc = "clear"
        /\ CommandReturned(r)
        /\ current_policy' = InactiveRecord
        /\ req' = [req EXCEPT ![t] =
              [r EXCEPT !.pc = "done", !.tc = "none",
                  !.log = Append(r.log, LogEntry(cmd, r.tc)),
                  !.response = [status |-> 200,
                      body |-> [success |-> TRUE,
                                result |-> clear_shaping(interface)]]]]
        /\ UNCHANGED <<catalog, kernel, orphans>>

\* GET /health
Health(t) ==
    /\ req[t].pc = "idle"
    /\ req' = [req EXCEPT ![t] =
            [IdleRequest EXCEPT !.pc = "done", !.op = "health",
                !.pre = current_policy,
                !.response = [status |-> 200,
                    body |-> [status |-> "healthy",
                              current_policy |-> current_policy]]]]
    /\ UNCHANGED <<catalog, current_policy, kernel, orphans>>

\* GET /policies
ListPolicies(t) ==
    /\ req[t].pc = "idle"
    /\ req' = [req EXCEPT ![t] =
            [IdleRequest EXCEPT !.pc = "done", !.op = "policies",
                !.pre = current_policy,
                !.response = [status |-> 200,
                    body |-> [policies |-> DOMAIN catalog,
                              details |-> catalog]]]]
    /\ UNCHANGED <<catalog, current_policy, kernel, orphans>>

\* GET /policy/current up to its run_command call; the interface is fixed.
CurrentRequest(t) ==
    /\ req[t].pc = "idle"
    /\ req' = [req EXCEPT ![t] =
            [IdleRequest EXCEPT !.pc = "current", !.op = "current",
                !.interface = "eth1", !.pre = current_policy,
                !.tc = "running"]]
    /\ UNCHANGED <<catalog, current_policy, kernel, orphans>>

\* GET /stats up to its run_command call.
StatsRequest(t, interface) ==
    /\ req[t].pc = "idle"
    /\ req' = [req EXCEPT ![t] =
            [IdleRequest EXCEPT !.pc = "stats", !.op = "stats",
                !.interface = interface, !.pre = current_policy,
                !.tc = "running"]]
    /\ UNCHANGED <<catalog, current_policy, kernel, orphans>>

\* get_current_policy from the return of run_command: the record is read
\* for the response.  The result of a timed-out command has no 'output':
\* the subscript raises.
GetCurrentPolicy(t) ==
    LET r == req[t]
        log == Append(r.log, LogEntry(ShowCommand("eth1"), r.tc))
    IN  /\ r.pc = "current"
        /\ CommandReturned(r)
        /\ req' = [req EXCEPT ![t] =
              [r EXCEPT !.pc = "done", !.log = log, !.tc = "none",
                  !.response =
                      IF r.tc = "timeout"
                      THEN [status |-> 500, body |-> [exception |-> "KeyError"]]
                      ELSE [status |-> 200,
                            body |-> [current_policy |-> current_policy,
                                      tc_status |-> r.output]]]]
        /\ UNCHANGED <<catalog, current_policy, kernel, orphans>>

\* get_stats from the return of run_command.
GetStats(t) ==
    LET r == req[t]
        log == Append(r.log, LogEntry(StatsCommand(r.interface), r.tc))
    IN  /\ r.pc = "stats"
        /\ CommandReturned(r)
        /\ req' = [req EXCEPT ![t] =
              [r EXCEPT !.pc = "done", !.log = log, !.tc = "none",
                  !.response =
                      IF r.tc = "timeout"
                      THEN [status |-> 500, body |-> [exception |-> "KeyError"]]
                      ELSE [status |-> 200,
                            body |-> [interface |-> r.interface,
                                      stats |-> r.output]]]]
        /\ UNCHANGED <<catalog, current_policy, kernel, orphans>>

\* The response has been sent; the worker is free again.
Respond(t) ==
    /\ req[t].pc = "done"
    /\ req' = [req EXCEPT ![t] = IdleRequest]
    /\ UNCHANGED <<catalog, current_policy, kernel, orphans>>

\* A handler or a command goes on: no request is accepted.
Onward == UNCHANGED <<tester, served>>

\* The server accepts a request of a client.
Accepted == served < MaxRequests /\ served' = served + 1 /\ UNCHANGED tester

StepRunTc ==
    \E t \in Threads, o \in Outcomes :
        RunTc(t, o) /\ Onward

StepOrphanRuns ==
    \E cmd \in BagToSet(orphans), o \in Outcomes :
        OrphanRuns(cmd, o) /\ Onward

StepGetCurrentPolicy ==
    \E t \in Threads :
        GetCurrentPolicy(t) /\ Onward

StepGetStats ==
    \E t \in Threads :
        GetStats(t) /\ Onward

StepApplyClear ==
    \E t \in Threads :
        ApplyClear(t) /\ Onward

StepApplyHtbCommand ==
    \E t \in Threads :
        ApplyHtbCommand(t) /\ Onward

StepApplyExec ==
    \E t \in Threads :
        ApplyExec(t) /\ Onward

StepClearPolicy ==
    \E t \in Threads :
        ClearPolicy(t) /\ Onward

StepRespond ==
    \E t \in Threads :
        Respond(t) /\ Onward

(***************************************************************************)
(* The server: app.run serves every request in a thread of its own, and    *)
(* nothing in the handlers waits for another request or for a command of   *)
(* an earlier one.  The runs are explored for two catalogs, the names of   *)
(* their policies, "no_shaping" and a name they do not have, on one        *)
(* interface.                                                              *)
(***************************************************************************)
ServerCatalogs ==
    { [n \in {"slow_link", "custom"} |->
          IF n = "slow_link" THEN DSlowLink ELSE d] :
        d \in {HtbDescriptor(1), NetemFull} }

ServerNames == {"no_shaping", "slow_link", "custom", "missing_policy"}

ServerInterfaces == {"eth1"}

\* request.args.get('interface', 'eth1'): any string.
StatsInterfaces == ServerInterfaces \cup {InjectedInterface}

Init ==
    /\ catalog \in ServerCatalogs
    /\ current_policy = InactiveRecord
    /\ kernel = [i \in Interfaces |-> <<>>]
    /\ req = [t \in Threads |-> IdleRequest]
    /\ tester = NoSuite
    /\ orphans = EmptyBag
    /\ served = 0

StepApplyRequest ==
    \E t \in Threads, n \in ServerNames, i \in ServerInterfaces :
        ApplyRequest(t, n, i) /\ Accepted

StepClearRequest ==
    \E t \in Threads, i \in ServerInterfaces :
        ClearRequest(t, i) /\ Accepted

StepClearRefused ==
    \E t \in Threads, status \in RefusedStatuses :
        ClearRefused(t, status) /\ Accepted

StepHealth ==
    \E t \in Threads :
        Health(t) /\ Accepted

StepListPolicies ==
    \E t \in Threads :
        ListPolicies(t) /\ Accepted

StepCurrentRequest ==
    \E t \in Threads :
        CurrentRequest(t) /\ Accepted

StepStatsRequest ==
    \E t \in Threads, i \in StatsInterfaces :
        StatsRequest(t, i) /\ Accepted

Next ==
    \/ StepApplyRequest
    \/ StepClearRequest
    \/ StepClearRefused
    \/ StepApplyClear
    \/ StepApplyHtbCommand
    \/ StepApplyExec
    \/ StepClearPolicy
    \/ StepHealth
    \/ StepListPolicies
    \/ StepCurrentRequest
    \/ StepStatsRequest
    \/ StepGetCurrentPolicy
    \/ StepGetStats
    \/ StepRespond
    \/ StepRunTc
    \/ StepOrphanRuns

Spec == Init /\ [][Next]_vars

(***************************************************************************)
(* The threaded server with the requests that write or read the record:   *)
(* apply of the three policies that succeed in writing it (line 34, 80,   *)
(* 90), clear (line 128), and the readers /health and /current.           *)
(***************************************************************************)
ReaderCatalogs ==
    { c \in ServerCatalogs : c["custom"] = HtbDescriptor(1) }

ReaderNames == {"no_shaping", "slow_link", "custom"}

InitReaders ==
    /\ catalog \in ReaderCatalogs
    /\ current_policy = InactiveRecord
    /\ kernel = [i \in Interfaces |-> <<>>]
    /\ req = [t \in Threads |-> IdleRequest]
    /\ tester = NoSuite
    /\ orphans = EmptyBag
    /\ served = 0

ReadersApplyRequest ==
    \E t \in Threads, n \in ReaderNames, i \in ServerInterfaces :
        ApplyRequest(t, n, i) /\ Accepted

NextReaders ==
    \/ ReadersApplyRequest
    \/ StepClearRequest
    \/ StepApplyClear
    \/ StepApplyHtbCommand
    \/ StepApplyExec
    \/ StepClearPolicy
    \/ StepHealth
    \/ StepCurrentRequest
    \/ StepGetCurrentPolicy
    \/ StepRespond
    \/ StepRunTc
    \/ StepOrphanRuns

SpecReaders == InitReaders /\ [][NextReaders]_vars

(***************************************************************************)
(* The server with one request in service at a time (one worker), for      *)
(* every catalog: every name on eth1 and one policy on the second          *)
(* interface.                                                              *)
(***************************************************************************)
SerialThreads == {"t1"}

SerialTargets ==
    { <<n, "eth1">> : n \in RequestNames } \cup { <<"slow_link", "eth2">> }

InitSerial ==
    /\ catalog \in Catalogs
    /\ current_policy = InactiveRecord
    /\ kernel = [i \in Interfaces |-> <<>>]
    /\ req = [t \in Threads |-> IdleRequest]
    /\ tester = NoSuite
    /\ orphans = EmptyBag
    /\ served = 0

SerialApplyRequest ==
    \E t \in SerialThreads, target \in SerialTargets :
        ApplyRequest(t, target[1], target[2]) /\ Accepted

SerialClearRequest ==
    \E t \in SerialThreads, i \in Interfaces :
        ClearRequest(t, i) /\ Accepted

SerialClearRefused ==
    \E t \in SerialThreads, status \in RefusedStatuses :
        ClearRefused(t, status) /\ Accepted

SerialHealth ==
    \E t \in SerialThreads :
        Health(t) /\ Accepted

SerialListPolicies ==
    \E t \in SerialThreads :
        ListPolicies(t) /\ Accepted

SerialCurrentRequest ==
    \E t \in SerialThreads :
        CurrentRequest(t) /\ Accepted

SerialStatsRequest ==
    \E t \in SerialThreads, i \in StatsInterfaces :
        StatsRequest(t, i) /\ Accepted

NextSerial ==
    \/ SerialApplyRequest
    \/ SerialClearRequest
    \/ SerialClearRefused
    \/ StepApplyClear
    \/ StepApplyHtbCommand
    \/ StepApplyExec
    \/ StepClearPolicy
    \/ SerialHealth
    \/ SerialListPolicies
    \/ SerialCurrentRequest
    \/ SerialStatsRequest
    \/ StepGetCurrentPolicy
    \/ StepGetStats
    \/ StepRespond
    \/ StepRunTc
    \/ StepOrphanRuns

SpecSerial == InitSerial /\ [][NextSerial]_vars

(***************************************************************************)
(* The same server on the catalog files of one family.  Those whose policy *)
(* "custom" is a class hierarchy, sent apply requests for eth1 and clear   *)
(* requests; and those whose policies are single disciplines (with the     *)
(* catalogs that have an entry no_shaping), sent every request.            *)
(***************************************************************************)
HtbCatalogs ==
    { c \in Catalogs :
        DOMAIN c = {"slow_link", "custom"} /\ c["custom"] \in HtbDescriptors }

InitSerialHtb ==
    /\ catalog \in HtbCatalogs
    /\ current_policy = InactiveRecord
    /\ kernel = [i \in Interfaces |-> <<>>]
    /\ req = [t \in Threads |-> IdleRequest]
    /\ tester = NoSuite
    /\ orphans = EmptyBag
    /\ served = 0

HtbTargets ==
    { <<n, "eth1">> : n \in {"slow_link", "custom", "missing_policy"} }

HtbApplyRequest ==
    \E t \in SerialThreads, target \in HtbTargets :
        ApplyRequest(t, target[1], target[2]) /\ Accepted

NextSerialHtb ==
    \/ HtbApplyRequest
    \/ SerialClearRequest
    \/ StepApplyClear
    \/ StepApplyHtbCommand
    \/ StepApplyExec
    \/ StepClearPolicy
    \/ StepRespond
    \/ StepRunTc
    \/ StepOrphanRuns

SpecSerialHtb == InitSerialHtb /\ [][NextSerialHtb]_vars

QdiscCatalogs ==
    { c \in Catalogs :
        \/ "no_shaping" \in DOMAIN c
        \/ c["custom"] \in CakeDescriptors \cup NetemDescriptors }

InitSerialQdisc ==
    /\ catalog \in QdiscCatalogs
    /\ current_policy = InactiveRecord
    /\ kernel = [i \in Interfaces |-> <<>>]
    /\ req = [t \in Threads |-> IdleRequest]
    /\ tester = NoSuite
    /\ orphans = EmptyBag
    /\ served = 0

SpecSerialQdisc == InitSerialQdisc /\ [][NextSerial]_vars

(***************************************************************************)
(* The test harness (TrafficShapingTester.run_test_suite) as the only      *)
(* client of the controller.  Its requests name no interface: the          *)
(* controller takes "eth1".  The harness waits for each response before it *)
(* goes on.                                                                *)
(***************************************************************************)
SuiteNames == {"no_shaping", "slow_link", "custom", "missing_policy"}

PolicyLists ==
    UNION { [1..n -> SuiteNames] : n \in 0..MaxPolicies }

\* The catalogs of the harness runs: slow_link and an htb policy.
SuiteCatalogs ==
    { c \in Catalogs :
        "no_shaping" \notin DOMAIN c /\ c["custom"] \in HtbDescriptors }

\* list(policies.keys()): the names in the order of the catalog file.
KeyOrders(names) ==
    { s \in [1..Cardinality(names) -> names] :
        \A a, b \in 1..Cardinality(names) : a # b => s[a] # s[b] }

InitSuite ==
    /\ catalog \in SuiteCatalogs
    /\ current_policy = InactiveRecord
    /\ kernel = [i \in Interfaces |-> <<>>]
    /\ req = [t \in Threads |-> IdleRequest]
    /\ orphans = EmptyBag
    /\ served = 0
    /\ \E given, strict \in BOOLEAN, policies \in PolicyLists :
          /\ ~given => policies = <<>>
          /\ tester = [pc |-> IF given THEN "loop" ELSE "start",
                       given |-> given, strict |-> strict,
                       policies |-> policies, i |-> 1,
                       results |-> <<>>, events |-> <<>>]

\* if policies is None: policies = self.get_policies(), the request.
TesterGetPolicies(t) ==
    /\ tester.pc = "start"
    /\ ListPolicies(t)
    /\ tester' = [tester EXCEPT !.pc = "policies_wait"]

\* get_policies returns response.json()['policies'].
TesterGotPolicies(t, order) ==
    /\ tester.pc = "policies_wait"
    /\ req[t].pc = "done"
    /\ req[t].response.status = 200
    /\ order \in KeyOrders(req[t].response.body.policies)
    /\ Respond(t)
    /\ tester' = [tester EXCEPT !.pc = "loop", !.policies = order]

\* self.apply_policy(policy): the POST of {"policy": policy_name}.
TesterApply(t) ==
    /\ tester.pc = "loop"
    /\ tester.i <= Len(tester.policies)
    /\ ApplyRequest(t, tester.policies[tester.i], "eth1")
    /\ tester' = [tester EXCEPT !.pc = "apply_wait"]

\* apply_policy returns True for status 200 and False otherwise; the loop
\* goes on to the next policy ("continue") when it returned False.
TesterApplyReturn(t) ==
    LET applied == req[t].response.status = 200
        event == [call |-> "apply", policy |-> tester.policies[tester.i],
                  applied |-> applied]
    IN  /\ tester.pc = "apply_wait"
        /\ req[t].pc = "done"
        /\ Respond(t)
        /\ tester' =
              IF applied
              THEN [tester EXCEPT !.pc = "measure",
                                  !.events = Append(@, event)]
              ELSE [tester EXCEPT !.pc = "loop", !.i = @ + 1,
                                  !.events = Append(@, event)]

\* How run_iperf_test ends: with a result, with None (iperf3 failed or
\* timed out, or its output did not parse), or with an exception it does
\* not catch (docker is not there, the parsed output is not of the shape
\* parse_iperf_results subscripts).
MeasureOutcomes == {"result", "none", "raised"}

\* result = self.run_iperf_test(policy); it is appended when it is not
\* None.  An exception leaves run_test_suite there and then.
TesterMeasure(outcome) ==
    LET policy == tester.policies[tester.i]
        event == [call |-> "measure", policy |-> policy, applied |-> TRUE]
    IN  /\ tester.pc = "measure"
        /\ tester' = [tester EXCEPT
              !.pc = IF outcome = "raised" THEN "raised" ELSE "clear",
              !.results = IF outcome = "result" THEN Append(@, policy) ELSE @,
              !.events = Append(@, event)]
        /\ UNCHANGED <<catalog, current_policy, kernel, req, orphans, served>>

\* self.clear_policy(): the POST without a body, which the controller
\* serves for "eth1" or refuses.
TesterClear(t) ==
    LET event == [call |-> "clear", policy |-> tester.policies[tester.i],
                  applied |-> TRUE]
    IN  /\ tester.pc = "clear"
        /\ IF tester.strict
           THEN \E status \in RefusedStatuses : ClearRefused(t, status)
           ELSE ClearRequest(t, "eth1")
        /\ tester' = [tester EXCEPT !.pc = "clear_wait",
                                    !.events = Append(@, event)]

\* clear_policy does not look at the response; the iteration ends.
TesterClearReturn(t) ==
    /\ tester.pc = "clear_wait"
    /\ req[t].pc = "done"
    /\ Respond(t)
    /\ tester' = [tester EXCEPT !.pc = "loop", !.i = @ + 1]

\* The loop is over: run_test_suite prints the summary lines and returns.
TesterReturn ==
    /\ tester.pc = "loop"
    /\ tester.i > Len(tester.policies)
    /\ tester' = [tester EXCEPT !.pc = "returned"]
    /\ UNCHANGED <<catalog, current_policy, kernel, req, orphans, served>>

SuiteGetPolicies ==
    \E t \in Threads : TesterGetPolicies(t) /\ UNCHANGED served

SuiteGotPolicies ==
    \E t \in Threads, order \in KeyOrders(DOMAIN catalog) :
        TesterGotPolicies(t, order) /\ UNCHANGED served

SuiteApply ==
    \E t \in Threads : TesterApply(t) /\ UNCHANGED served

SuiteApplyReturn ==
    \E t \in Threads : TesterApplyReturn(t) /\ UNCHANGED served

SuiteMeasure == \E outcome \in MeasureOutcomes : TesterMeasure(outcome)

SuiteClear ==
    \E t \in Threads : TesterClear(t) /\ UNCHANGED served

SuiteClearReturn ==
    \E t \in Threads : TesterClearReturn(t) /\ UNCHANGED served

NextSuite ==
    \/ SuiteGetPolicies
    \/ SuiteGotPolicies
    \/ SuiteApply
    \/ SuiteApplyReturn
    \/ SuiteMeasure
    \/ SuiteClear
    \/ SuiteClearReturn
    \/ TesterReturn
    \/ StepApplyClear
    \/ StepApplyHtbCommand
    \/ StepApplyExec
    \/ StepClearPolicy
    \/ StepRunTc
    \/ StepOrphanRuns

SpecSuite == InitSuite /\ [][NextSuite]_vars

(***************************************************************************)
(* Properties.  A request that has returned is at "done" with its response *)
(* until the response is sent; pre is the record at the time of the call   *)
(* and log the commands the request issued, in order.                      *)
(***************************************************************************)
ReturnedApply(t) == req[t].pc = "done" /\ req[t].op = "apply"

\* A clear that reached clear_shaping has returned.
ReturnedClear(t) ==
    req[t].pc = "done" /\ req[t].op = "clear" /\ req[t].log # <<>>

Succeeded(t) == req[t].response.status = 200

\* The apply failed at a command of the policy: the response carries it.
FailedAtCommand(t) ==
    /\ ReturnedApply(t)
    /\ req[t].response.status = 400
    /\ "command" \in DOMAIN req[t].response.body

IsUnknownTypeFailure(response, kind) ==
    /\ response.status = 400
    /\ response.body =
          [success |-> FALSE, error |-> "Unknown policy type: " \o kind]

SupportedKinds == {"none", "cake", "netem", "htb"}

\* C1: after an apply of P that returned success the record is
\* {P, active, the descriptor the apply used}: the catalog's descriptor of P,
\* or the built-in {type: none} for no_shaping; after a clear that returned
\* success the record is {none, inactive}.
C1_CurrentAfterSuccess ==
    \A t \in Threads :
        req[t].pc = "done" /\ Succeeded(t) =>
            /\ req[t].op = "apply" =>
                  current_policy =
                      [name |-> req[t].policy_name, status |-> "active",
                       config |-> IF req[t].policy_name = "no_shaping"
                                  THEN [type |-> "none"]
                                  ELSE catalog[req[t].policy_name]]
            /\ req[t].op = "clear" =>
                  current_policy = [name |-> "none", status |-> "inactive"]

C1_Witness ==
    \E t \in Threads :
        /\ ReturnedApply(t) /\ Succeeded(t)
        /\ req[t].policy_name = "custom"
        /\ req[t].pre.status = "active"
        /\ req[t].pre.name = "slow_link"

\* C2: a failed apply leaves the name and the status of the record
\* as they were before the call, and the record does not name the failed
\* policy as active.
C2_Original ==
    \A t \in Threads :
        ReturnedApply(t) /\ ~Succeeded(t) =>
            /\ current_policy.name = req[t].pre.name
            /\ current_policy.status = req[t].pre.status
            /\ ~(/\ current_policy.status = "active"
                 /\ current_policy.name = req[t].policy_name)

\* C3: when the record is Active(P) and apply(Q) fails at a command after
\* the clear, the record afterwards is {none, inactive} and the failure
\* names the failing command.
C3_Original ==
    \A t \in Threads :
        FailedAtCommand(t) /\ req[t].pre.status = "active" =>
            /\ current_policy = [name |-> "none", status |-> "inactive"]
            /\ req[t].response.body.command =
                   req[t].log[Len(req[t].log)].command

\* C4: apply of a name that is absent from the catalog returns the
\* not-found failure and leaves the record unchanged.
C4_Original ==
    \A t \in Threads :
        /\ ReturnedApply(t)
        /\ req[t].policy_name # ""
        /\ req[t].policy_name \notin DOMAIN catalog
        => /\ req[t].response =
                 [status |-> 400,
                  body |-> [success |-> FALSE,
                            error |-> "Policy '" \o req[t].policy_name
                                          \o "' not found"]]
           /\ current_policy = req[t].pre

\* C5: an apply that ends in the unknown-kind failure has issued no command
\* that changed the scheduler configuration: its removal removed nothing.
C5_Original ==
    \A t \in Threads :
        /\ ReturnedApply(t)
        /\ IsUnknownTypeFailure(req[t].response, req[t].policy.type)
        => \A j \in 1..Len(req[t].log) : req[t].log[j].tc # "done"

\* The number of commands of the policy that the request has issued (the
\* first logged command is the removal).
IssuedCount(t) == IF req[t].log = <<>> THEN 0 ELSE Len(req[t].log) - 1

\* C6: in every apply the issued commands of the policy are the first k of
\* the compiled sequence, once each and in order; every one before the last
\* issued completed, so nothing is issued after a failed command; and when
\* the k-th fails the apply returns the failure that names the k-th command.
C6_StopOnFirstFailure ==
    \A t \in Threads :
        req[t].op = "apply" =>
            LET log == req[t].log
                cmds == req[t].commands
                k == IssuedCount(t)
            IN  /\ k <= Len(cmds)
                /\ \A j \in 1..k : log[j + 1].command = cmds[j]
                /\ \A j \in 1..(k - 1) : log[j + 1].tc = "done"
                /\ (k >= 1 /\ log[k + 1].tc # "done" =>
                      /\ req[t].pc = "done"
                      /\ req[t].response.status = 400
                      /\ req[t].response.body.success = FALSE
                      /\ req[t].response.body.command = cmds[k])

\* The add-class of the second of three classes failed.
C6_Witness ==
    \E t \in Threads :
        /\ FailedAtCommand(t)
        /\ Len(req[t].commands) = 8
        /\ IssuedCount(t) = 5
        /\ req[t].response.body.command[9] = "1:11"

\* C7: apply of a catalog entry, under any name: a kind among none, cake,
\* netem and htb never fails as unsupported (and kind none issues nothing
\* but the clear and succeeds); any other kind fails as unsupported, naming
\* the kind.
C7_Original ==
    \A t \in Threads :
        /\ ReturnedApply(t)
        /\ req[t].policy_name \in DOMAIN catalog
        /\ ~RaisesKeyError(catalog[req[t].policy_name])
        => LET d == catalog[req[t].policy_name] IN
           /\ d.type \in SupportedKinds =>
                 /\ ~IsUnknownTypeFailure(req[t].response, d.type)
                 /\ d.type = "none" => Succeeded(t) /\ Len(req[t].log) = 1
           /\ d.type \notin SupportedKinds =>
                 IsUnknownTypeFailure(req[t].response, d.type)

\* The word that follows the word key in a command.
WordAfter(cmd, key) ==
    cmd[(CHOOSE j \in 1..(Len(cmd) - 1) : cmd[j] = key) + 1]

ClassIdentifiers == <<"10", "11", "12", "13", "14", "15">>

\* C8: the sequence compiled from an htb descriptor with N classes has
\* 2 + 2N commands: the root discipline, the aggregate class 1:1 with
\* total_bandwidth, then per class in descriptor order its add-class and its
\* leaf discipline; the i-th class (from 0) has identifier 10+i, and no two
\* classes and no two disciplines of the sequence share an identifier.
C8_HtbSequence ==
    \A t \in Threads :
        req[t].policy.type = "htb" /\ req[t].commands # <<>> =>
            LET cmds == req[t].commands
                dev == req[t].interface
                classes == req[t].policy.classes
                N == Len(classes)
            IN  /\ Len(cmds) = 2 + 2 * N
                /\ cmds[1] = <<"tc", "qdisc", "add", "dev", dev, "root",
                               "handle", "1:", "htb", "default", "30">>
                /\ cmds[2] = <<"tc", "class", "add", "dev", dev, "parent", "1:",
                               "classid", "1:1", "htb", "rate",
                               req[t].policy.total_bandwidth>>
                /\ \A i \in 0..(N - 1) :
                      LET id == ClassIdentifiers[i + 1]
                          c == classes[i + 1]
                      IN  /\ cmds[3 + 2 * i] =
                                <<"tc", "class", "add", "dev", dev, "parent",
                                  "1:1", "classid", "1:" \o id, "htb",
                                  "rate", c.rate, "ceil",
                                  IF "ceil" \in DOMAIN c THEN c.ceil ELSE c.rate>>
                          /\ cmds[4 + 2 * i] =
                                <<"tc", "qdisc", "add", "dev", dev, "parent",
                                  "1:" \o id, "handle", id \o ":", "fq_codel">>
                /\ \A a, b \in 1..Len(cmds) :
                      a # b /\ cmds[a][2] = cmds[b][2] =>
                          IF cmds[a][2] = "class"
                          THEN WordAfter(cmds[a], "classid")
                                  # WordAfter(cmds[b], "classid")
                          ELSE WordAfter(cmds[a], "handle")
                                  # WordAfter(cmds[b], "handle")

C8_Witness ==
    \E t \in Threads :
        /\ req[t].pc = "apply_htb"
        /\ req[t].policy.type = "htb"
        /\ Len(req[t].policy.classes) = 3
        /\ Len(req[t].commands) = 8

\* C9: a clear reports success when the removal found nothing to remove (or
\* removed the configuration), and reports a failure when the removal
\* failed for another reason or timed out.
C9_Original ==
    \A t \in Threads :
        ReturnedClear(t) =>
            LET tc == req[t].log[1].tc
                ok == /\ req[t].response.status = 200
                      /\ req[t].response.body.success
            IN  /\ tc \in {"done", "nothing"} => ok
                /\ tc \in {"error", "timeout"} => ~ok

\* C10: the record is Active(P) on the return of an apply(P) only if that
\* run issued the clear and every compiled command of P, and none of them
\* failed or timed out.
C10_Original ==
    \A t \in Threads :
        /\ ReturnedApply(t)
        /\ Succeeded(t)
        /\ current_policy.status = "active"
        /\ current_policy.name = req[t].policy_name
        => /\ Len(req[t].log) = 1 + Len(req[t].commands)
           /\ \A j \in 1..Len(req[t].log) :
                 req[t].log[j].tc \in {"done", "nothing"}

\* C11: while an apply that has issued its clear has not returned, no
\* command of another apply or clear request on the same interface runs
\* and none of them writes the record.
C11_Original ==
    [][\A t, u \in Threads :
          /\ t # u
          /\ req[t].op = "apply"
          /\ req[t].pc \in {"apply_exec", "apply_htb"}
          /\ req[u].op \in {"apply", "clear"}
          /\ req[u].interface = req[t].interface
          => /\ (req[u].tc = "running" => req'[u].tc = "running")
             /\ (req'[u] # req[u] => current_policy' = current_policy)]_vars

\* C12: a step of an apply or clear request on interface J leaves the
\* scheduler configuration of every other interface I and the record that
\* is reported for I (there is one record, reported for every interface)
\* as they were.
C12_Original ==
    [][\A t \in Threads :
          req'[t] # req[t] /\ req[t].op \in {"apply", "clear"} =>
              \A I \in Interfaces \ {req[t].interface} :
                  /\ kernel'[I] = kernel[I]
                  /\ current_policy' = current_policy]_vars

\* A record all of whose fields come from one write.
WholeRecord(r) ==
    \/ r = [name |-> "none", status |-> "inactive"]
    \/ \E n \in DOMAIN catalog \cup {"no_shaping"} :
          r = [name |-> n, status |-> "active",
               config |-> IF n = "no_shaping" THEN [type |-> "none"]
                          ELSE catalog[n]]

\* C13: under concurrent requests the record, and every copy of it that a
\* health or current-policy query has read, is a whole record: inactive
\* with name none, or active with a policy name and the configuration of
\* that policy.
C13_WholeRecordObserved ==
    /\ WholeRecord(current_policy)
    /\ \A t \in Threads :
          /\ req[t].pc = "done"
          /\ req[t].op \in {"health", "current"}
          /\ req[t].response.status = 200
          => WholeRecord(req[t].response.body.current_policy)

\* A current-policy query that was in service when an apply wrote the record
\* has read the record the apply wrote; the apply has not sent its response.
C13_Witness ==
    \E t, u \in Threads :
        /\ t # u
        /\ req[t].pc = "done"
        /\ req[t].op = "current"
        /\ req[t].response.status = 200
        /\ req[t].pre.status = "inactive"
        /\ req[t].response.body.current_policy.status = "active"
        /\ req[u].pc = "done"
        /\ req[u].op = "apply"
        /\ req[u].policy.type = "htb"
        /\ req[u].policy_name = req[t].response.body.current_policy.name

HasWord(cmd, w) == \E j \in 1..Len(cmd) : cmd[j] = w

\* The command creates the discipline or the class with identifier p.
Creates(cmd, p) ==
    \/ cmd[2] = "qdisc" /\ cmd[3] = "add" /\ HasWord(cmd, "handle")
          /\ WordAfter(cmd, "handle") = p
    \/ cmd[2] = "class" /\ cmd[3] = "add" /\ WordAfter(cmd, "classid") = p

\* C14: the first command an apply issues is the removal of the root of its
\* interface, every other one is issued after it, and a command that names
\* a parent (the aggregate class under 1:, a class under 1:1, a leaf
\* discipline under its class) is issued after the command that creates
\* that parent.
C14_ParentsFirst ==
    \A t \in Threads :
        req[t].op = "apply" /\ req[t].log # <<>> =>
            LET log == req[t].log IN
            /\ log[1].command =
                  <<"tc", "qdisc", "del", "dev", req[t].interface, "root",
                    "2>/dev/null", "||", "true">>
            /\ \A j \in 2..Len(log) :
                  /\ log[j].command[3] = "add"
                  /\ HasWord(log[j].command, "parent") =>
                        \E i \in 2..(j - 1) :
                            Creates(log[i].command,
                                    WordAfter(log[j].command, "parent"))

C14_Witness ==
    \E t \in Threads :
        /\ ReturnedApply(t) /\ Succeeded(t)
        /\ req[t].policy.type = "htb"
        /\ Len(req[t].log) = 9

\* The apply got as far as its commands, or has none to run.
Compiled(t) == req[t].policy_name = "no_shaping" \/ req[t].commands # <<>>

C15_ApplyPart ==
    \A t \in Threads :
        ReturnedApply(t) =>
            /\ (/\ Compiled(t)
                /\ IssuedCount(t) = Len(req[t].commands)
                /\ \A j \in 2..Len(req[t].log) : req[t].log[j].tc = "done"
                => Succeeded(t))
            /\ (FailedAtCommand(t) =>
                   req[t].response.body.command # req[t].log[1].command)

C15_ClearPart ==
    \A t \in Threads :
        /\ req[t].pc = "clear"
        /\ req'[t] # req[t]
        /\ kernel[req[t].interface] = <<>>
        => /\ kernel'[req[t].interface] = <<>>
           /\ (req'[t].pc = "done" =>
                 /\ req'[t].response.status = 200
                 /\ req'[t].response.body.success)

\* C15: an apply whose compiled commands all complete returns success
\* whatever the removal reported (nothing to remove, removed, refused, timed
\* out), and no apply fails at the removal; a clear of an interface that has
\* no configuration returns success and leaves it without one.
C15_ClearNeverFailsApply == []C15_ApplyPart /\ [][C15_ClearPart]_vars

\* A successful apply on an interface that had nothing to remove.
C15_Witness ==
    \E t \in Threads :
        /\ ReturnedApply(t) /\ Succeeded(t)
        /\ req[t].log[1].tc = "nothing"
        /\ Len(req[t].log) >= 2

\* C16: the sequence compiled from a netem descriptor is one root netem
\* command whose parameters are the present attributes, verbatim, in the
\* order delay, jitter, loss, rate.
C16_NetemCommand ==
    \A t \in Threads :
        req[t].policy.type = "netem" /\ req[t].commands # <<>> =>
            LET d == req[t].policy
                Part(a, kw) == IF a \in DOMAIN d THEN kw \o <<d[a]>> ELSE <<>>
            IN  req[t].commands =
                  << <<"tc", "qdisc", "add", "dev", req[t].interface,
                       "root", "netem">>
                     \o Part("delay", <<"delay">>)
                     \o Part("jitter", <<>>)
                     \o Part("loss", <<"loss">>)
                     \o Part("rate", <<"rate">>) >>

C16_Witness ==
    \E t \in Threads :
        /\ req[t].pc = "apply_exec"
        /\ req[t].policy.type = "netem"
        /\ DOMAIN req[t].policy = {"type", "delay", "jitter", "loss", "rate"}

\* C17: the netem command carries the jitter value only when it carries a
\* delay.
C17_Original ==
    \A t \in Threads :
        /\ req[t].policy.type = "netem"
        /\ req[t].commands # <<>>
        /\ "jitter" \in DOMAIN req[t].policy
        => (HasWord(req[t].commands[1], req[t].policy.jitter)
               => HasWord(req[t].commands[1], "delay"))

\* C18: the sequence compiled from a cake descriptor is one root cake
\* command: the bandwidth, then rtt if present, then the features in the
\* order of the descriptor.
C18_CakeCommand ==
    \A t \in Threads :
        req[t].policy.type = "cake" /\ req[t].commands # <<>> =>
            LET d == req[t].policy IN
            req[t].commands =
              << <<"tc", "qdisc", "add", "dev", req[t].interface, "root",
                   "cake", "bandwidth", d.bandwidth>>
                 \o (IF "rtt" \in DOMAIN d THEN <<"rtt", d.rtt>> ELSE <<>>)
                 \o (IF "features" \in DOMAIN d
                     THEN [j \in 1..Len(d.features) |-> d.features[j]]
                     ELSE <<>>) >>

C18_Witness ==
    \E t \in Threads :
        /\ req[t].pc = "apply_exec"
        /\ req[t].policy.type = "cake"
        /\ {"rtt", "features"} \subseteq DOMAIN req[t].policy
        /\ Len(req[t].policy.features) = 2

\* C19: a command of the policy that timed out is the last one its apply
\* issued and was issued once; the apply has returned the failure that names
\* it, and the record is the one from before the call.
C19_TimeoutIsFailure ==
    \A t \in Threads :
        req[t].op = "apply" =>
            \A j \in 2..Len(req[t].log) :
                req[t].log[j].tc = "timeout" =>
                    /\ j = Len(req[t].log)
                    /\ \A i \in 1..(j - 1) :
                          req[t].log[i].command # req[t].log[j].command
                    /\ req[t].pc = "done"
                    /\ req[t].response.status = 400
                    /\ req[t].response.body.success = FALSE
                    /\ req[t].response.body.command = req[t].log[j].command
                    /\ current_policy = req[t].pre

\* The leaf discipline of the first of three classes timed out.
C19_Witness ==
    \E t \in Threads :
        /\ ReturnedApply(t)
        /\ Len(req[t].commands) = 8
        /\ Len(req[t].log) = 5
        /\ req[t].log[5].tc = "timeout"
        /\ req[t].pre.status = "active"

\* The complete configuration of the recorded policy on an interface.
ConfigurationOf(record, interface) ==
    CASE record.name = "no_shaping" -> <<>>
      [] record.config.type = "cake" -> <<CakeCommand(record.config, interface)>>
      [] record.config.type = "netem" -> <<NetemCommand(record.config, interface)>>
      [] record.config.type = "htb" -> HtbCommands(record.config, interface)
      [] OTHER -> <<>>

\* C20: whenever no request is being served and the record is Active(P),
\* an interface carries exactly the complete configuration of P.
C20_Original ==
    /\ \A t \in Threads : req[t].pc \in {"idle", "done"}
    /\ current_policy.status = "active"
    => \E i \in Interfaces : kernel[i] = ConfigurationOf(current_policy, i)

\* The record has one of the two shapes: inactive with name none and no
\* configuration, or active with the name of a policy (never none) and the
\* descriptor of that policy.
C21_TwoShapes ==
    \/ current_policy = [name |-> "none", status |-> "inactive"]
    \/ /\ DOMAIN current_policy = {"name", "status", "config"}
       /\ current_policy.status = "active"
       /\ current_policy.name # "none"
       /\ current_policy.name \in DOMAIN catalog \cup {"no_shaping"}
       /\ current_policy.config =
             IF current_policy.name = "no_shaping" THEN [type |-> "none"]
             ELSE catalog[current_policy.name]

\* A step that makes the record active, or active with another name, is
\* the return of a successful apply of that name.
C21_ActiveBySuccessfulApply ==
    /\ current_policy' # current_policy
    /\ current_policy'.status = "active"
    => \E t \in Threads :
          /\ req[t].op = "apply"
          /\ req[t].pc # "done"
          /\ req'[t].pc = "done"
          /\ req'[t].response.status = 200
          /\ req'[t].policy_name = current_policy'.name

\* C21: in every reachable state the record is {none, inactive} without a
\* configuration, or {P, active, D} where P was passed to a successful apply
\* and D is its descriptor; it is never active with name none and never
\* inactive with a policy name or a configuration.
C21_Original == []C21_TwoShapes /\ [][C21_ActiveBySuccessfulApply]_vars

QueryOps == {"health", "policies", "current", "stats"}

\* C22: a step of a health, list-policies, current-policy or stats request
\* (of the handler or of the command line it runs), in any state and
\* whatever the other requests are doing, leaves the record and the
\* scheduler configuration of every interface as they were.
C22_Original ==
    [][\A t \in Threads :
          /\ req'[t] # req[t]
          /\ (req[t].op \in QueryOps \/ req'[t].op \in QueryOps)
          => /\ current_policy' = current_policy
             /\ kernel' = kernel]_vars

\* A measurement is the call right after an apply of the same policy that
\* returned success.
C23_MeasuredAfterApply ==
    \A j \in 1..Len(tester.events) :
        tester.events[j].call = "measure" =>
            /\ j > 1
            /\ tester.events[j - 1].call = "apply"
            /\ tester.events[j - 1].policy = tester.events[j].policy
            /\ tester.events[j - 1].applied

\* Between a measurement and a later apply, and between a measurement and
\* the return of the suite, a clear was requested.
C23_ClearAfterMeasure ==
    \A j \in 1..Len(tester.events) :
        tester.events[j].call = "measure" =>
            /\ \A k \in (j + 1)..Len(tester.events) :
                  tester.events[k].call = "apply" =>
                      \E c \in (j + 1)..(k - 1) : tester.events[c].call = "clear"
            /\ (tester.pc \in {"apply_wait", "returned"} =>
                  \E c \in (j + 1)..Len(tester.events) :
                      tester.events[c].call = "clear")

\* When run_test_suite has returned the interface has no configuration.
C23_CleanOnReturn ==
    tester.pc = "returned" => kernel["eth1"] = <<>>

\* C23: for every list of policies and every pattern of apply successes and
\* failures, the harness measures a policy only after its apply succeeded,
\* requests a clear after each measured policy before the next apply, and
\* when run_test_suite returns the interface carries no scheduler
\* configuration left by a policy of the suite.
C23_Original ==
    /\ C23_MeasuredAfterApply
    /\ C23_ClearAfterMeasure
    /\ C23_CleanOnReturn

====
